---- MODULE Spec2Model ----
(***************************************************************************)
(* Media-session presence synchronizer of amusic (src-tauri/src).          *)
(*                                                                         *)
(* The module models                                                       *)
(*   - the player resolver        apple_music/player.rs find_apple_music_player *)
(*   - the timing computation     apple_music/player.rs and lib.rs         *)
(*   - the song cache             apple_music/player.rs CURRENT_SONG       *)
(*   - the presence publisher     discord/client.rs set_activity           *)
(*   - the update pipeline        apple_music/player.rs update_discord_presence *)
(*     run step by step by the event path and by the poll path             *)
(*   - the driver loops           apple_music/player.rs listen_for_player_events, *)
(*     start_event_listener; discord/client.rs start_periodic_updates;     *)
(*     commands.rs start_discord_presence; ui/tray.rs quit.                *)
(*   - the listener of the single-file version  lib.rs                     *)
(*     listen_for_player_events, as far as it differs in its locking.      *)
(*                                                                         *)
(* Option<T> is a sequence of length at most one: None is <<>>, Some(x)    *)
(* is <<x>>.  Strings are sequences of one-character strings where their   *)
(* content is inspected (bus names, decimal numbers).                      *)
(***************************************************************************)
EXTENDS Integers, Sequences, FiniteSets, TLC

VARIABLES
    APPLE_MUSIC_PID,   \* player.rs:11   Mutex<Option<u32>>
    players,           \* the players registered on the bus, in find_all() order
    CURRENT_SONG,      \* player.rs:105  Mutex<Option<SongInfo>>
    DISCORD_CLIENT,    \* client.rs:8    Mutex<Option<DiscordIpcClient>>
    presence,          \* the activity the indicator shows (None: nothing)
    clock,             \* seconds; SystemTime::now() and Instant::now()
    pc,                \* per thread: position inside update_discord_presence
    loc,               \* per thread: the locals of update_discord_presence
    slot_sampled,      \* history: current_time of the update that last wrote the cache
    client_guard,      \* client.rs:32   the thread holding the DISCORD_CLIENT lock
    at,                \* per thread: position in its driver loop or command
    is_playing,        \* player.rs:303  the listener's is_playing mark
    handled,           \* history: the event the listener is handling, and its clears
    poisoned,          \* player.rs:105  the CURRENT_SONG mutex is poisoned
    attempts,          \* client.rs:134-136  the polling loop's attempt counter
    pending,           \* player.rs:286  the error the listener is about to return
    log,               \* per thread: the error line its loop printed, if any
    started,           \* commands.rs:9-12  how often the two drivers were spawned
    pid_guard,         \* lib.rs:380    the thread holding the APPLE_MUSIC_PID lock
                       \*               from one step to the next
    found,             \* resolver specification: the outcome of the last resolve
    timing             \* timing specification: the sample and what was computed

vars == <<APPLE_MUSIC_PID, players, CURRENT_SONG, DISCORD_CLIENT, presence,
          clock, pc, loc, slot_sampled, client_guard, at, is_playing, handled,
          poisoned, attempts, pending, log, started, pid_guard, found,
          timing>>

\* the state of the driver loops
drive == <<at, is_playing, handled>>

None == <<>>

Some(x) == <<x>>

IsSome(o) == Len(o) = 1

IsNone(o) == Len(o) = 0

Unwrap(o) == o[1]

UnwrapOr(o, d) == IF IsSome(o) THEN o[1] ELSE d

(***************************************************************************)
(* Strings: u32::to_string and str::contains.                              *)
(***************************************************************************)
DigitChars == <<"0", "1", "2", "3", "4", "5", "6", "7", "8", "9">>

RECURSIVE to_string(_)
to_string(n) ==
    IF n < 10 THEN <<DigitChars[n + 1]>>
    ELSE to_string(n \div 10) \o <<DigitChars[(n % 10) + 1]>>

contains(s, pat) ==
    \E i \in 0..(Len(s) - Len(pat)) : SubSeq(s, i + 1, i + Len(pat)) = pat

(***************************************************************************)
(* Errors: error/mod.rs AppError.  msg is the text the callers inspect.    *)
(***************************************************************************)
AppError(variant, msg) == [variant |-> variant, msg |-> msg]

Ok(v) == [ok |-> TRUE, val |-> v]

Err(e) == [ok |-> FALSE, err |-> e]

PidNotStored == AppError("Player", "Apple Music PID not stored")

NoPlayersActive == AppError("Player", "not found. No players are active yet.")

NoPlayerForInstance ==
    AppError("Player", "not found. No player for this specific instance is active yet.")

FinderError == AppError("Mpris", "Error finding players")

(***************************************************************************)
(* The bus.  A registered player has an owning process and a bus name; a   *)
(* Chromium-based player registers as "...instance<pid>", other players    *)
(* under a name without digits.                                            *)
(***************************************************************************)
Pids == {7, 42, 1420}

MaxPlayers == 2

InstancePrefix == <<"i", "n", "s", "t">>

OtherName == <<"v", "l", "c">>

BusPlayer(owner, embeds) ==
    [owner |-> owner,
     bus_name |-> IF embeds THEN InstancePrefix \o to_string(owner) ELSE OtherName]

Owners(list) == {list[i].owner : i \in 1..Len(list)}

RemoveAt(list, i) == SubSeq(list, 1, i - 1) \o SubSeq(list, i + 1, Len(list))

(***************************************************************************)
(* player.rs:15-41  store_pid / get_pid                                    *)
(***************************************************************************)
\* a getter that answers process id 0 while nothing is stored
get_pid_or_zero(cell) == Ok(UnwrapOr(cell, 0))

get_pid(cell) == IF IsSome(cell) THEN Ok(Unwrap(cell)) ELSE Err(PidNotStored)

(***************************************************************************)
(* player.rs:44-89  find_apple_music_player.  listing is the result of     *)
(* PlayerFinder::find_all(): Some(list), or None when the bus call fails.  *)
(***************************************************************************)
\* a resolver that falls back to the first registered player
first_match_or_any(list, pid_str) ==
    LET hits == {i \in 1..Len(list) : contains(list[i].bus_name, pid_str)}
    IN  IF hits = {} THEN Some(list[1])
        ELSE Some(list[CHOOSE i \in hits : \A j \in hits : i <= j])

first_match(list, pid_str) ==
    LET hits == {i \in 1..Len(list) : contains(list[i].bus_name, pid_str)}
    IN  IF hits = {} THEN None
        ELSE Some(list[CHOOSE i \in hits : \A j \in hits : i <= j])

find_apple_music_player(cell, listing) ==
    LET apple_music_pid == get_pid(cell)
    IN  IF ~apple_music_pid.ok THEN apple_music_pid
        ELSE IF IsNone(listing) THEN Err(FinderError)
        ELSE IF Len(Unwrap(listing)) = 0 THEN Err(NoPlayersActive)
        ELSE LET hit == first_match(Unwrap(listing), to_string(apple_music_pid.val))
             IN  IF IsSome(hit) THEN Ok(Unwrap(hit)) ELSE Err(NoPlayerForInstance)

(***************************************************************************)
(* Timing.  raw_duration is Option (metadata may carry no length).         *)
(* player.rs:172-193 and lib.rs:286-324.                                   *)
(***************************************************************************)
DAY == 86400

\* a computation that anchors the start at the sample time
player_timing_unanchored(raw_duration, raw_position, current_time) ==
    LET length == UnwrapOr(raw_duration, 0)
    IN  [start_time |-> current_time,
         end_time |-> IF length > 0 /\ length < DAY
                      THEN Some(current_time + length) ELSE None]

player_timing(raw_duration, raw_position, current_time) ==
    LET position == raw_position
        length == UnwrapOr(raw_duration, 0)
        start_time == current_time - position
    IN  [start_time |-> start_time,
         end_time |-> IF length > 0 /\ length < DAY
                      THEN Some(start_time + length) ELSE None]

\* lib.rs has no Option: the end timestamp is always computed and always shown
lib_timing(raw_duration, raw_position, current_time) ==
    LET length == UnwrapOr(raw_duration, 0)
        length_seconds == IF length > DAY THEN 0 ELSE length
        position_seconds ==
            IF raw_position > length \/ raw_position > DAY THEN 0 ELSE raw_position
        start_time == current_time - position_seconds
    IN  [start_time |-> start_time,
         end_time |-> Some(start_time + length_seconds)]

(***************************************************************************)
(* utils/artwork.rs.  get_artwork_url is an HTTP lookup whose answer the   *)
(* program does not control: found or not.  The search URL is built from   *)
(* the percent-encoded "<title> <artist>".                                 *)
(***************************************************************************)
APPLE_MUSIC_URL == "https://music.apple.com"

encode(query) ==
    [i \in 1..Len(query) |-> IF query[i] = " " THEN "%20" ELSE query[i]]

get_apple_music_search_url(title, artist) ==
    <<APPLE_MUSIC_URL, "/search?term=">> \o encode(<<title, " ", artist>>)

get_artwork_url(artist, title, found_online) ==
    IF found_online THEN Some(<<"artwork", artist, title>>) ELSE None

(***************************************************************************)
(* player.rs:91-136  the single-slot song cache                            *)
(***************************************************************************)
CacheTtl == 30

SongInfo(title, artist, start_time, end_time, artwork_url, url, last_updated) ==
    [title |-> title, artist |-> artist, start_time |-> start_time,
     end_time |-> end_time, artwork_url |-> artwork_url,
     apple_music_url |-> url, last_updated |-> last_updated]

\* Instant::elapsed() at the instant `instant`
elapsed(last_updated, instant) == instant - last_updated

\* a lookup that compares the title only
get_cached_song_info_by_title(slot, title, artist, instant) ==
    IF /\ IsSome(slot)
       /\ Unwrap(slot).title = title
       /\ elapsed(Unwrap(slot).last_updated, instant) < CacheTtl
    THEN Some(Unwrap(slot))
    ELSE None

\* a lookup that still reuses the entry at exactly the TTL
get_cached_song_info_inclusive(slot, title, artist, instant) ==
    IF /\ IsSome(slot)
       /\ Unwrap(slot).title = title
       /\ Unwrap(slot).artist = artist
       /\ elapsed(Unwrap(slot).last_updated, instant) <= CacheTtl
    THEN Some(Unwrap(slot))
    ELSE None

get_cached_song_info(slot, title, artist, instant) ==
    IF /\ IsSome(slot)
       /\ Unwrap(slot).title = title
       /\ Unwrap(slot).artist = artist
       /\ elapsed(Unwrap(slot).last_updated, instant) < CacheTtl
    THEN Some(Unwrap(slot))
    ELSE None

cache_song_info(song_info) == Some(song_info)

\* player.rs:126-128: the error of cache_song_info when the lock attempt fails
CacheLockError == AppError("Application", "Failed to lock song cache")

(***************************************************************************)
(* client.rs:53-124  set_activity: the activity handed to the IPC client.  *)
(***************************************************************************)
MINUTES_IN_SECONDS == 180

default_timestamps(start_time) ==
    [start |-> Some(start_time), end |-> Some(start_time + MINUTES_IN_SECONDS)]

activity_timestamps(start_time, end_time) ==
    LET timestamps == default_timestamps(start_time)
    IN  IF IsSome(end_time)
           /\ Unwrap(end_time) > start_time
           /\ Unwrap(end_time) - start_time <= DAY
        THEN [timestamps EXCEPT
                 !.end = Some(start_time + (Unwrap(end_time) - start_time))]
        ELSE timestamps

set_activity(title, artist, artwork_url, start_time, end_time, apple_music_url) ==
    [details |-> title,
     state |-> artist,
     large_image |-> UnwrapOr(artwork_url, <<"amusic_lg">>),
     button_url |-> apple_music_url,
     timestamps |-> activity_timestamps(start_time, end_time)]

\* lib.rs:326-368: the activity of the single-file implementation
lib_activity(title, artist, artwork_url, start_time, end_time, apple_music_url) ==
    [details |-> title,
     state |-> artist,
     large_image |-> UnwrapOr(artwork_url, <<"amusic_lg">>),
     button_url |-> apple_music_url,
     timestamps |-> [start |-> Some(start_time), end |-> Some(end_time)]]

(***************************************************************************)
(* The environment the updates sample.                                     *)
(***************************************************************************)
\* the listener thread, the polling thread, and the thread that serves the
\* start_discord_presence command and the tray menu
Threads == {"event", "poll", "command"}

Drivers == {"event", "poll"}

Statuses == {"Playing", "Paused", "Stopped"}

T0 == 1000

TickSteps == {29, 30}

MaxElapsed == 30

\* how often the drivers are spawned at most
MaxStarts == 2

\* player.rs:342-367: the kinds of event the listener's match tells apart
Events == {"Playing", "Paused", "Stopped", "TrackChanged", "PlayerShutDown", "Other"}

\* What the environment can present to an update: the tracks, the reported
\* lengths and positions, the answers of the artwork lookup, the players that
\* may register, the process ids of the launched player, the events the
\* stream delivers.
Environment(songs, lengths, positions, artworks, bus, pids, events) ==
    [songs |-> songs, lengths |-> lengths, positions |-> positions,
     artworks |-> artworks, bus |-> bus, pids |-> pids, events |-> events,
     metadata |-> {"complete"}]

\* What the metadata of a sample may lack: nothing, the title, the artist
\* list, or the artists in a list that is present but empty.
MetadataKinds == {"complete", "no_title", "no_artists", "empty_artists"}

WithMetadata(env, kinds) == [env EXCEPT !.metadata = kinds]

\* two drivers, one track whose length arrives late
ConcEnv ==
    Environment({<<"Song A", "Artist X">>}, {None, Some(200)}, {10},
                {FALSE}, {BusPlayer(42, TRUE)}, {42}, {})

\* one driver, tracks differing in title or in artist, a corrupt position
SeqEnv ==
    Environment({<<"Song A", "Artist X">>, <<"Song B", "Artist X">>,
                 <<"Song A", "Artist Y">>},
                {None, Some(200)}, {10, 500}, BOOLEAN, {BusPlayer(42, TRUE)}, {42},
                {})

\* the end-to-end scenario: process 4242, one player "inst4242", Song A by
\* Artist X, 200s long (a length that may be missing at first), 10s in
ScenarioEnv ==
    Environment({<<"Song A", "Artist X">>}, {None, Some(200)}, {10}, BOOLEAN,
                {BusPlayer(4242, TRUE)}, {4242}, {})

\* one track whose length arrives late, with and without artwork
PoisonEnv ==
    Environment({<<"Song A", "Artist X">>}, {None, Some(200)}, {10}, BOOLEAN,
                {BusPlayer(42, TRUE)}, {42}, {})

\* one track, every kind of metadata
MetaEnv ==
    WithMetadata(Environment({<<"Song A", "Artist X">>}, {None, Some(200)}, {10},
                             {FALSE}, {BusPlayer(42, TRUE)}, {42}, {}),
                 MetadataKinds)

\* the resolver alone: any launched process id, players of every owner, with
\* and without the owner's process id in the bus name
ResolveEnv ==
    Environment({}, {}, {}, {}, {BusPlayer(p, e) : p \in Pids, e \in BOOLEAN}, Pids,
                {})

(***************************************************************************)
(* player.rs:139-278  update_discord_presence, one step per access to      *)
(* shared state.  pc: idle, track, clear, clear_presence, lookup, upgrade,  *)
(* miss, publish, set_activity, done.                                      *)
(***************************************************************************)
IdleLoc ==
    [player |-> None, title |-> "", artist |-> "", position |-> 0,
     length |-> None, current_time |-> 0, start_time |-> 0, end_time |-> None,
     cached_song |-> None, upgraded |-> FALSE, artwork_url |-> None,
     apple_music_url |-> <<>>, calls |-> 0, result |-> None,
     metadata |-> "complete"]

Finish(t, result) ==
    /\ pc' = [pc EXCEPT ![t] = "done"]
    /\ loc' = [loc EXCEPT ![t].result = Some(result)]

\* client.rs:32-36 lock_client, player.rs:16 and 31: Mutex::lock blocks while
\* another thread holds the guard
\* a lock that is granted while another thread holds it
lock_granted_always(guard) == TRUE

lock_granted(guard) == IsNone(guard)

\* player.rs:142-149: resolve the player; get_pid takes the identity lock
Find(t) ==
    /\ pc[t] = "idle"
    /\ lock_granted(pid_guard)
    /\ IsSome(DISCORD_CLIENT)
    /\ \E bus_ok \in BOOLEAN :
          LET r == find_apple_music_player(
                       APPLE_MUSIC_PID, IF bus_ok THEN Some(players) ELSE None)
          IN  IF r.ok
              THEN /\ pc' = [pc EXCEPT ![t] = "track"]
                   /\ loc' = [loc EXCEPT ![t].player = Some(r.val)]
              ELSE Finish(t, r)
    /\ UNCHANGED <<pid_guard, started, poisoned, attempts, pending, log,
                   client_guard, drive, APPLE_MUSIC_PID, players, CURRENT_SONG, DISCORD_CLIENT,
                   presence, clock, slot_sampled, found, timing>>

\* player.rs:168-170: Metadata::title() and Metadata::artists() of a sample
metadata_title(song, kind) ==
    IF kind = "no_title" THEN None ELSE Some(song[1])

metadata_artists(song, kind) ==
    IF kind = "no_artists" THEN None
    ELSE IF kind = "empty_artists" THEN Some(<<>>)
    ELSE Some(<<song[2]>>)

\* player.rs:169-170: the defaults for a missing title and a missing list
artists_or_unknown(artists) == UnwrapOr(artists, <<"Unknown">>)

title_or_default(title) == UnwrapOr(title, "No title")

\* player.rs:153-193: sample status, metadata, position and the wall clock.
\* The index [0] into an empty artist list panics (player.rs:170): the thread
\* unwinds and runs no further step.
Track(t, env) ==
    /\ pc[t] = "track"
    /\ \/ /\ Finish(t, Err(AppError("Mpris", "Error creating progress tracker")))
          /\ at' = at
       \/ \E status \in Statuses \ {"Playing"} :
             /\ pc' = [pc EXCEPT ![t] = "clear"]
             /\ loc' = loc
             /\ at' = at
       \/ \E song \in env.songs, length \in env.lengths,
             position \in env.positions, kind \in env.metadata :
             LET tm == player_timing(length, position, clock)
                 title == title_or_default(metadata_title(song, kind))
                 artists == artists_or_unknown(metadata_artists(song, kind))
             IN  IF Len(artists) = 0
                 THEN /\ pc' = [pc EXCEPT ![t] = "panicked"]
                      /\ at' = [at EXCEPT ![t] = "panicked"]
                      /\ loc' = [loc EXCEPT ![t].metadata = kind]
                 ELSE /\ pc' = [pc EXCEPT ![t] = "lookup"]
                      /\ at' = at
                      /\ loc' = [loc EXCEPT ![t].title = title,
                                            ![t].artist = artists[1],
                                            ![t].position = position,
                                            ![t].length = length,
                                            ![t].current_time = clock,
                                            ![t].start_time = tm.start_time,
                                            ![t].end_time = tm.end_time,
                                            ![t].metadata = kind]
    /\ UNCHANGED <<pid_guard, started, poisoned, attempts, pending, log, client_guard, is_playing,
                   handled, APPLE_MUSIC_PID, players, CURRENT_SONG, DISCORD_CLIENT,
                   presence, clock, slot_sampled, found, timing>>

\* client.rs:40 and 61: set_activity and clear_presence take the guard first
LockClient(t) ==
    /\ pc[t] \in {"publish", "clear"}
    /\ lock_granted(client_guard)
    /\ client_guard' = Some(t)
    /\ pc' = [pc EXCEPT ![t] = IF pc[t] = "publish" THEN "set_activity"
                                ELSE "clear_presence"]
    /\ UNCHANGED <<pid_guard, started, poisoned, attempts, pending, log,
                   drive, APPLE_MUSIC_PID, players, CURRENT_SONG, DISCORD_CLIENT,
                   presence, clock, loc, slot_sampled, found, timing>>

\* an update that reports not-playing without clearing the presence
ReportNotPlaying(t) ==
    /\ pc[t] = "clear_presence"
    /\ presence' = presence
    /\ Finish(t, Err(AppError("Player", "Player is not currently playing")))
    /\ client_guard' = None
    /\ UNCHANGED <<pid_guard, started, poisoned, attempts, pending, log, drive, APPLE_MUSIC_PID, players,
                   CURRENT_SONG, DISCORD_CLIENT, clock, slot_sampled, found, timing>>

\* client.rs:39-50 clear_presence, called at player.rs:162-166; the guard is
\* dropped when the call returns
ClearNotPlaying(t) ==
    /\ pc[t] = "clear_presence"
    /\ IF IsNone(DISCORD_CLIENT)
       THEN /\ presence' = presence
            /\ Finish(t, Err(AppError("Player", "Player is not currently playing")))
       ELSE \/ /\ presence' = None
               /\ Finish(t, Err(AppError("Player", "Player is not currently playing")))
            \/ /\ presence' = presence
               /\ Finish(t, Err(AppError("Discord", "Error clearing activity")))
    /\ client_guard' = None
    /\ UNCHANGED <<pid_guard, started, poisoned, attempts, pending, log,
                   drive, APPLE_MUSIC_PID, players, CURRENT_SONG, DISCORD_CLIENT,
                   clock, slot_sampled, found, timing>>

\* player.rs:196-200: the cache lookup and the hit or miss decision; a failed
\* lock attempt inside get_cached_song_info (player.rs:110) yields None
Lookup(t) ==
    /\ pc[t] = "lookup"
    /\ LET got == IF poisoned THEN None
                  ELSE get_cached_song_info(CURRENT_SONG, loc[t].title,
                                            loc[t].artist, clock)
       IN  IF IsSome(got)
           THEN IF IsNone(Unwrap(got).end_time) /\ IsSome(loc[t].end_time)
                THEN /\ pc' = [pc EXCEPT ![t] = "upgrade"]
                     /\ loc' = [loc EXCEPT
                           ![t].cached_song =
                               Some([Unwrap(got) EXCEPT !.end_time = loc[t].end_time]),
                           ![t].upgraded = TRUE]
                ELSE /\ pc' = [pc EXCEPT ![t] = "publish"]
                     /\ loc' = [loc EXCEPT ![t].cached_song = got]
           ELSE /\ pc' = [pc EXCEPT ![t] = "miss"]
                /\ loc' = loc
    /\ UNCHANGED <<pid_guard, started, poisoned, attempts, pending, log,
                   client_guard, drive, APPLE_MUSIC_PID, players, CURRENT_SONG, DISCORD_CLIENT,
                   presence, clock, slot_sampled, found, timing>>

\* player.rs:204-217: write the entry with the upgraded end_time; the result
\* of cache_song_info is dropped (let _), so a failed lock attempt changes
\* nothing and the update goes on
UpgradeCache(t) ==
    /\ pc[t] = "upgrade"
    /\ LET c == Unwrap(loc[t].cached_song)
       IN  IF poisoned
           THEN UNCHANGED <<CURRENT_SONG, slot_sampled>>
           ELSE /\ CURRENT_SONG' = cache_song_info(
                       SongInfo(c.title, c.artist, c.start_time, loc[t].end_time,
                                c.artwork_url, c.apple_music_url, clock))
                /\ slot_sampled' = loc[t].current_time
    /\ pc' = [pc EXCEPT ![t] = "publish"]
    /\ UNCHANGED <<pid_guard, started, poisoned, attempts, pending, log,
                   client_guard, drive, APPLE_MUSIC_PID, players, DISCORD_CLIENT, presence, clock,
                   loc, found, timing>>

\* player.rs:249-265: artwork lookup, search URL, and the replacing write; a
\* failed lock attempt inside cache_song_info ends the update (the ? at 265)
CacheMiss(t, env) ==
    /\ pc[t] = "miss"
    /\ \E found_online \in env.artworks :
          LET artwork_url == get_artwork_url(loc[t].artist, loc[t].title, found_online)
              apple_music_url ==
                  get_apple_music_search_url(loc[t].title, loc[t].artist)
          IN  IF poisoned
              THEN /\ UNCHANGED <<CURRENT_SONG, slot_sampled>>
                   /\ pc' = [pc EXCEPT ![t] = "done"]
                   /\ loc' = [loc EXCEPT ![t].artwork_url = artwork_url,
                                         ![t].apple_music_url = apple_music_url,
                                         ![t].result = Some(Err(CacheLockError))]
              ELSE /\ CURRENT_SONG' = cache_song_info(
                          SongInfo(loc[t].title, loc[t].artist, loc[t].start_time,
                                   loc[t].end_time, artwork_url, apple_music_url,
                                   clock))
                   /\ slot_sampled' = loc[t].current_time
                   /\ pc' = [pc EXCEPT ![t] = "publish"]
                   /\ loc' = [loc EXCEPT ![t].artwork_url = artwork_url,
                                         ![t].apple_music_url = apple_music_url]
    /\ UNCHANGED <<pid_guard, started, poisoned, attempts, pending, log,
                   client_guard, drive, APPLE_MUSIC_PID, players, DISCORD_CLIENT, presence, clock,
                   found, timing>>

\* the arguments of the set_activity call: player.rs:221-228 (hit), 268-275 (miss)
\* a hit path that publishes the timing of its own sample
PublishArgsOwnTiming(t) ==
    IF IsSome(loc[t].cached_song)
    THEN LET c == Unwrap(loc[t].cached_song)
         IN  [title |-> c.title, artist |-> c.artist, artwork_url |-> c.artwork_url,
              start_time |-> loc[t].start_time, end_time |-> loc[t].end_time,
              apple_music_url |-> c.apple_music_url]
    ELSE [title |-> loc[t].title, artist |-> loc[t].artist,
          artwork_url |-> loc[t].artwork_url, start_time |-> loc[t].start_time,
          end_time |-> loc[t].end_time, apple_music_url |-> loc[t].apple_music_url]

PublishArgs(t) ==
    IF IsSome(loc[t].cached_song)
    THEN LET c == Unwrap(loc[t].cached_song)
         IN  [title |-> c.title, artist |-> c.artist, artwork_url |-> c.artwork_url,
              start_time |-> c.start_time, end_time |-> c.end_time,
              apple_music_url |-> c.apple_music_url]
    ELSE [title |-> loc[t].title, artist |-> loc[t].artist,
          artwork_url |-> loc[t].artwork_url, start_time |-> loc[t].start_time,
          end_time |-> loc[t].end_time, apple_music_url |-> loc[t].apple_music_url]

ActiveMessage(t) ==
    [text |-> IF IsSome(loc[t].cached_song)
              THEN "Discord presence active (cached): "
              ELSE "Discord presence active: ",
     artist |-> loc[t].artist, title |-> loc[t].title]

\* the update returns result after one more call on the IPC client
FinishCall(t, result) ==
    /\ pc' = [pc EXCEPT ![t] = "done"]
    /\ loc' = [loc EXCEPT ![t].result = Some(result), ![t].calls = @ + 1]

\* client.rs:53-124 set_activity, called at player.rs:221 and 268; the guard
\* is dropped when the call returns
SetActivity(t) ==
    /\ pc[t] = "set_activity"
    /\ LET a == PublishArgs(t)
       IN  IF IsNone(DISCORD_CLIENT)
           THEN /\ presence' = presence
                /\ Finish(t, Err(AppError("Discord", "Discord client not initialized")))
           ELSE \/ /\ presence' = Some(set_activity(a.title, a.artist, a.artwork_url,
                                       a.start_time, a.end_time, a.apple_music_url))
                   /\ FinishCall(t, Ok(ActiveMessage(t)))
                \/ /\ presence' = presence
                   /\ FinishCall(t, Err(AppError("Discord", "Error setting presence")))
    /\ client_guard' = None
    /\ UNCHANGED <<pid_guard, started, poisoned, attempts, pending, log,
                   drive, APPLE_MUSIC_PID, players, CURRENT_SONG, DISCORD_CLIENT,
                   clock, slot_sampled, found, timing>>

\* the update of thread t has returned
Returned(t) == pc[t] = "done" /\ IsSome(loc[t].result)

\* the value it returned
Outcome(t) == Unwrap(loc[t].result)

\* the update returns to its caller
Return(t) ==
    /\ pc[t] = "done"
    /\ pc' = [pc EXCEPT ![t] = "idle"]
    /\ loc' = [loc EXCEPT ![t] = IdleLoc]
    /\ UNCHANGED <<pid_guard, started, poisoned, attempts, pending, log,
                   client_guard, drive, APPLE_MUSIC_PID, players, CURRENT_SONG, DISCORD_CLIENT,
                   presence, clock, slot_sampled, found, timing>>

(***************************************************************************)
(* The rest of the process and its environment.                            *)
(***************************************************************************)
\* client.rs:12-29 initialize, from commands.rs:7; connecting may fail
Initialize ==
    /\ \/ /\ IsNone(DISCORD_CLIENT)
          /\ DISCORD_CLIENT' = Some("connected")
       \/ /\ DISCORD_CLIENT' = DISCORD_CLIENT
    /\ UNCHANGED <<pid_guard, started, poisoned, attempts, pending, log,
                   client_guard, drive, APPLE_MUSIC_PID, players, CURRENT_SONG, presence, clock, pc,
                   loc, slot_sampled, found, timing>>

\* player.rs:15-27
store_pid(pid) == Some(pid)

\* a launcher that can be run again and stores the new child's process id
RelaunchAppleMusic(env) ==
    /\ \E pid \in env.pids : APPLE_MUSIC_PID' = store_pid(pid)
    /\ UNCHANGED <<pid_guard, started, poisoned, attempts, pending, log, client_guard, drive, players,
                   CURRENT_SONG, DISCORD_CLIENT, presence, clock, pc, loc,
                   slot_sampled, found, timing>>

\* launcher.rs:41-50: open_apple_music stores the child's process id; it runs
\* once, from the setup hook (lib.rs:662)
OpenAppleMusic(env) ==
    /\ IsNone(APPLE_MUSIC_PID)
    /\ lock_granted(pid_guard)
    /\ \E pid \in env.pids : APPLE_MUSIC_PID' = store_pid(pid)
    /\ UNCHANGED <<pid_guard, started, poisoned, attempts, pending, log,
                   client_guard, drive, players, CURRENT_SONG, DISCORD_CLIENT, presence, clock, pc,
                   loc, slot_sampled, found, timing>>

\* a player appears on the bus
Register(env) ==
    /\ Len(players) < MaxPlayers
    /\ \E p \in env.bus :
          /\ p.owner \notin Owners(players)
          /\ players' = Append(players, p)
    /\ UNCHANGED <<pid_guard, started, poisoned, attempts, pending, log,
                   client_guard, drive, APPLE_MUSIC_PID, CURRENT_SONG, DISCORD_CLIENT, presence, clock,
                   pc, loc, slot_sampled, found, timing>>

\* a player leaves the bus
Unregister ==
    /\ \E i \in 1..Len(players) : players' = RemoveAt(players, i)
    /\ UNCHANGED <<pid_guard, started, poisoned, attempts, pending, log,
                   client_guard, drive, APPLE_MUSIC_PID, CURRENT_SONG, DISCORD_CLIENT, presence, clock,
                   pc, loc, slot_sampled, found, timing>>

\* time passes
Tick ==
    /\ \E d \in TickSteps :
          /\ clock + d <= T0 + MaxElapsed
          /\ clock' = clock + d
    /\ UNCHANGED <<pid_guard, started, poisoned, attempts, pending, log,
                   client_guard, drive, APPLE_MUSIC_PID, players, CURRENT_SONG, DISCORD_CLIENT,
                   presence, pc, loc, slot_sampled, found, timing>>

NoEvent == [event |-> None, clears |-> 0]

\* client.rs:134-136: attempts_for_current_song, last_song_title, last_song_artist
NoAttempts == [count |-> 0, title |-> "", artist |-> ""]

NoTiming == [raw_duration |-> None, raw_position |-> 0, now |-> 0,
             player |-> None, lib |-> None]

Init ==
    /\ APPLE_MUSIC_PID = None
    /\ players = <<>>
    /\ CURRENT_SONG = None
    /\ DISCORD_CLIENT = None
    /\ presence = None
    /\ clock = T0
    /\ pc = [t \in Threads |-> "idle"]
    /\ loc = [t \in Threads |-> IdleLoc]
    /\ slot_sampled = 0
    /\ client_guard = None
    /\ at = [t \in Threads |-> IF t = "command" THEN "idle" ELSE "unspawned"]
    /\ is_playing = FALSE
    /\ handled = NoEvent
    /\ poisoned = FALSE
    /\ attempts = NoAttempts
    /\ pending = None
    /\ log = [t \in Threads |-> None]
    /\ started = 0
    /\ pid_guard = None
    /\ found = None
    /\ timing = NoTiming

\* the steps of an update after the resolve
Pipeline(t, env) ==
    \/ Track(t, env)
    \/ LockClient(t)
    \/ ClearNotPlaying(t)
    \/ Lookup(t)
    \/ UpgradeCache(t)
    \/ CacheMiss(t, env)
    \/ SetActivity(t)

update_discord_presence(t, env) ==
    \/ Find(t)
    \/ Pipeline(t, env)
    \/ Return(t)

Run(threads, env) ==
    \/ \E t \in threads : update_discord_presence(t, env)
    \/ Initialize
    \/ OpenAppleMusic(env)
    \/ Register(env)
    \/ Unregister
    \/ Tick

\* the event path and the poll path, concurrently
Next == Run(Drivers, ConcEnv)

Spec == Init /\ [][Next]_vars

\* the poll path alone, over the richer environment
NextSeq == Run({"poll"}, SeqEnv)

SpecSeq == Init /\ [][NextSeq]_vars

\* the CURRENT_SONG mutex becomes poisoned: from now on Mutex::lock returns
\* Err at player.rs:110 and 127
Poison ==
    /\ ~poisoned
    /\ poisoned' = TRUE
    /\ UNCHANGED <<pid_guard, started, attempts, pending, log, client_guard, drive, APPLE_MUSIC_PID,
                   players, CURRENT_SONG, DISCORD_CLIENT, presence, clock, pc, loc,
                   slot_sampled, found, timing>>

\* the poll path alone, with a cache mutex that may fail
NextPoison ==
    \/ Run({"poll"}, PoisonEnv)
    \/ Poison

SpecPoison == Init /\ [][NextPoison]_vars

\* the poll path alone, over every kind of metadata
NextMeta == Run({"poll"}, MetaEnv)

SpecMeta == Init /\ [][NextMeta]_vars

\* the poll path alone, in the end-to-end scenario
NextScenario == Run({"poll"}, ScenarioEnv)

SpecScenario == Init /\ [][NextScenario]_vars

(***************************************************************************)
(* The driver loops.  at[t] is the position of thread t:                   *)
(*   event    unspawned, spawned, listen, wait_player, sleep, status,      *)
(*            initial_update, subscribe, events, event_update,             *)
(*            event_clear, event_clearing, wait_launch (lib.rs), exited    *)
(*   poll     unspawned, spawned, update, sleep, sleep_short, exited       *)
(*   command  idle, update, quit_clear, quit_clearing, exited              *)
(* A thread runs update_discord_presence only from an update position.     *)
(***************************************************************************)
UpdateSites == {"update", "initial_update", "event_update"}

\* the two loops: one track whose length may arrive late, a fixed clock,
\* every kind of event
LoopsEnv ==
    Environment({<<"Song A", "Artist X">>},
                {None, Some(200)}, {10}, {FALSE}, {BusPlayer(42, TRUE)}, {42},
                Events)

\* three threads: the same track, the events whose arms call the publisher
DriveEnv ==
    Environment({<<"Song A", "Artist X">>},
                {None, Some(200)}, {10}, {FALSE}, {BusPlayer(42, TRUE)}, {42},
                {"Playing", "Paused", "PlayerShutDown"})

\* player.rs:343-358: the is_playing mark after an event
\* a listener that forgets to lower the mark
mark_after_sticky(event, mark) ==
    IF event = "Playing" THEN TRUE ELSE mark

mark_after(event, mark) ==
    IF event = "Playing" THEN TRUE
    ELSE IF event \in {"Paused", "Stopped"} THEN FALSE
    ELSE mark

\* player.rs:342-367: where the match arm of an event takes the listener
\* a listener that treats a shutdown like an unhandled event
after_event_ignoring_shutdown(event, mark) ==
    IF event = "Playing" THEN "event_update"
    ELSE IF event \in {"Paused", "Stopped"} THEN "event_clear"
    ELSE IF event = "TrackChanged" THEN (IF mark THEN "event_update" ELSE "events")
    ELSE "events"

\* a listener that only marks on Playing and leaves the update to the poll
after_event_deferring(event, mark) ==
    IF event \in {"Paused", "Stopped", "PlayerShutDown"} THEN "event_clear"
    ELSE IF event = "TrackChanged" THEN (IF mark THEN "event_update" ELSE "events")
    ELSE "events"

\* a listener that re-runs the pipeline on every track change
after_event_unmarked(event, mark) ==
    IF event \in {"Playing", "TrackChanged"} THEN "event_update"
    ELSE IF event \in {"Paused", "Stopped", "PlayerShutDown"} THEN "event_clear"
    ELSE "events"

after_event(event, mark) ==
    IF event = "Playing" THEN "event_update"
    ELSE IF event \in {"Paused", "Stopped"} THEN "event_clear"
    ELSE IF event = "TrackChanged" THEN (IF mark THEN "event_update" ELSE "events")
    ELSE IF event = "PlayerShutDown" THEN "event_clear"
    ELSE "events"

\* player.rs:385-394: the supervising loop after listen_for_player_events
\* a supervisor that gives up on an error
supervise_once(result) == IF result.ok THEN "listen" ELSE "exited"

supervise(result) == IF result.ok THEN "listen" ELSE "sleep"

\* str::contains on the Display text of an error, for the phrases the loops
\* search for and the messages the program produces
Phrases(e) ==
    IF e.msg = PidNotStored.msg THEN {"PID not stored"}
    ELSE IF e.msg \in {NoPlayersActive.msg, NoPlayerForInstance.msg} THEN {"not found"}
    ELSE {}

mentions(e, phrase) == phrase \in Phrases(e)

\* client.rs:178-185: the line the polling loop prints for a result
poll_log(result) ==
    IF ~result.ok /\ ~mentions(result.err, "PID not stored")
                  /\ ~mentions(result.err, "not found")
    THEN Some(result.err)
    ELSE None

\* player.rs:386-390: the line the supervising loop prints for a result
supervisor_log(result) ==
    IF ~result.ok /\ ~mentions(result.err, "PID not stored")
    THEN Some(result.err)
    ELSE None

WaitingPrefix == "Waiting for complete song data for "

MaxShortAttempts == 5

\* client.rs:144-176: the attempt counter after an update returned result; only
\* a message with the waiting prefix counts as an attempt, any other Ok
\* message resets the counter, an Err leaves it alone
attempts_after(result, tries) ==
    IF ~result.ok THEN tries
    ELSE IF result.val.text = WaitingPrefix
         THEN IF result.val.artist = tries.artist /\ result.val.title = tries.title
              THEN [tries EXCEPT !.count = @ + 1]
              ELSE [count |-> 1, title |-> result.val.title,
                    artist |-> result.val.artist]
         ELSE NoAttempts

\* client.rs:138-188: the polling loop after update_discord_presence; the
\* short sleep is taken only for a message with the waiting prefix, while the
\* counter is below 5
\* a polling loop that stops at the first error
poll_after_fragile(result, tries) == IF result.ok THEN "sleep" ELSE "exited"

poll_after(result, tries) ==
    IF result.ok /\ result.val.text = WaitingPrefix /\ tries.count < MaxShortAttempts
    THEN "sleep_short"
    ELSE "sleep"

\* commands.rs:5-26 start_discord_presence, its first invocation:
\* initialize, spawn both threads, then one update on the calling thread
StartDiscordPresence ==
    /\ at["command"] = "idle"
    /\ at["event"] = "unspawned"
    /\ lock_granted(client_guard)
    /\ \/ /\ DISCORD_CLIENT' = Some("connected")
          /\ at' = [t \in Threads |-> IF t = "command" THEN "update" ELSE "spawned"]
          /\ started' = started + 1
       \/ /\ IsNone(DISCORD_CLIENT)
          /\ UNCHANGED <<DISCORD_CLIENT, at, started>>
    /\ UNCHANGED <<pid_guard, poisoned, attempts, pending, log,
                   client_guard, is_playing, handled, APPLE_MUSIC_PID, players,
                   CURRENT_SONG, presence, clock, pc, loc, slot_sampled, found,
                   timing>>

\* commands.rs:5-26 start_discord_presence, a later invocation: initialize
\* finds the client in place and returns Ok (client.rs:15, 28), both threads
\* are spawned once more (commands.rs:9-12; the new threads run the same
\* loops as the first pair), then one update on the calling thread
StartDiscordPresenceAgain ==
    /\ at["command"] = "idle"
    /\ at["event"] \notin {"unspawned", "exited"}
    /\ lock_granted(client_guard)
    /\ IsSome(DISCORD_CLIENT)
    /\ started < MaxStarts
    /\ started' = started + 1
    /\ at' = [at EXCEPT !["command"] = "update"]
    /\ UNCHANGED <<pid_guard, poisoned, attempts, pending, log, client_guard, is_playing,
                   handled, APPLE_MUSIC_PID, players, CURRENT_SONG, DISCORD_CLIENT,
                   presence, clock, pc, loc, slot_sampled, found, timing>>

\* commands.rs:16-22: the command returns whatever the update returned
CommandReturn ==
    /\ pc["command"] = "done"
    /\ pc' = [pc EXCEPT !["command"] = "idle"]
    /\ loc' = [loc EXCEPT !["command"] = IdleLoc]
    /\ at' = [at EXCEPT !["command"] = "idle"]
    /\ UNCHANGED <<pid_guard, started, poisoned, attempts, pending, log,
                   client_guard, is_playing, handled, APPLE_MUSIC_PID, players,
                   CURRENT_SONG, DISCORD_CLIENT, presence, clock, slot_sampled,
                   found, timing>>

\* ui/tray.rs:29-31: the quit menu item
TrayQuit ==
    /\ at["command"] = "idle"
    /\ at' = [at EXCEPT !["command"] = "quit_clear"]
    /\ UNCHANGED <<pid_guard, started, poisoned, attempts, pending, log,
                   client_guard, is_playing, handled, APPLE_MUSIC_PID, players,
                   CURRENT_SONG, DISCORD_CLIENT, presence, clock, pc, loc,
                   slot_sampled, found, timing>>

\* ui/tray.rs:34, client.rs:40
TrayLock ==
    /\ at["command"] = "quit_clear"
    /\ lock_granted(client_guard)
    /\ client_guard' = Some("command")
    /\ at' = [at EXCEPT !["command"] = "quit_clearing"]
    /\ UNCHANGED <<pid_guard, started, poisoned, attempts, pending, log,
                   is_playing, handled, APPLE_MUSIC_PID, players, CURRENT_SONG,
                   DISCORD_CLIENT, presence, clock, pc, loc, slot_sampled, found,
                   timing>>

\* ui/tray.rs:34-40: clear_presence, then the process exits and every thread
\* ends wherever it is
TrayClear ==
    /\ at["command"] = "quit_clearing"
    /\ \/ presence' = IF IsSome(DISCORD_CLIENT) THEN None ELSE presence
       \/ IsSome(DISCORD_CLIENT) /\ presence' = presence
    /\ client_guard' = None
    /\ at' = [t \in Threads |-> "exited"]
    /\ pc' = [t \in Threads |-> "idle"]
    /\ loc' = [t \in Threads |-> IdleLoc]
    /\ UNCHANGED <<pid_guard, started, poisoned, attempts, pending, log,
                   is_playing, handled, APPLE_MUSIC_PID, players, CURRENT_SONG,
                   DISCORD_CLIENT, clock, slot_sampled, found, timing>>

\* player.rs:284-296: the listener resolves its player
ListenFind ==
    /\ at["event"] = "listen"
    /\ lock_granted(pid_guard)
    /\ \E bus_ok \in BOOLEAN :
          LET r == find_apple_music_player(
                       APPLE_MUSIC_PID, IF bus_ok THEN Some(players) ELSE None)
          IN  /\ at' = [at EXCEPT !["event"] = IF r.ok THEN "status" ELSE "wait_player"]
              /\ pending' = IF r.ok THEN None ELSE Some(r.err)
    /\ UNCHANGED <<pid_guard, started, poisoned, attempts, log,
                   client_guard, is_playing, handled, APPLE_MUSIC_PID, players,
                   CURRENT_SONG, DISCORD_CLIENT, presence, clock, pc, loc,
                   slot_sampled, found, timing>>

\* player.rs:293-294: sleep 5s, then return the resolver's error to the
\* supervising loop
ListenGiveUp ==
    /\ at["event"] = "wait_player"
    /\ at' = [at EXCEPT !["event"] = supervise(Err(Unwrap(pending)))]
    /\ log' = [log EXCEPT !["event"] = supervisor_log(Err(Unwrap(pending)))]
    /\ pending' = None
    /\ UNCHANGED <<pid_guard, started, poisoned, attempts,
                   client_guard, is_playing, handled, APPLE_MUSIC_PID, players,
                   CURRENT_SONG, DISCORD_CLIENT, presence, clock, pc, loc,
                   slot_sampled, found, timing>>

\* lib.rs:383-386: the error of a listener that found no identity stored
PidNotStoredYet == AppError("Player", "Apple Music PID not stored yet")

\* lib.rs:378-412: the single-file listener reads the identity itself before
\* it resolves the player.  With an identity stored the guard is dropped at
\* the end of the match (lib.rs:380-390) and find_apple_music_player follows
\* as in player.rs; with none stored the None arm sleeps 5s inside the match,
\* the guard still alive.
LibListenFind ==
    \/ /\ IsSome(APPLE_MUSIC_PID)
       /\ ListenFind
    \/ /\ IsNone(APPLE_MUSIC_PID)
       /\ at["event"] = "listen"
       /\ lock_granted(pid_guard)
       /\ pid_guard' = Some("event")
       /\ at' = [at EXCEPT !["event"] = "wait_launch"]
       /\ pending' = Some(PidNotStoredYet)
       /\ UNCHANGED <<started, poisoned, attempts, log, client_guard, is_playing,
                      handled, APPLE_MUSIC_PID, players, CURRENT_SONG,
                      DISCORD_CLIENT, presence, clock, pc, loc, slot_sampled,
                      found, timing>>

\* lib.rs:385-386, 110-116: the sleep ends, the function returns its error
\* and the guard is dropped; the supervising loop does not print an error
\* that contains "PID not stored"
LibListenGiveUp ==
    /\ at["event"] = "wait_launch"
    /\ pid_guard' = None
    /\ at' = [at EXCEPT !["event"] = supervise(Err(Unwrap(pending)))]
    /\ log' = [log EXCEPT !["event"] = None]
    /\ pending' = None
    /\ UNCHANGED <<started, poisoned, attempts, client_guard, is_playing, handled,
                   APPLE_MUSIC_PID, players, CURRENT_SONG, DISCORD_CLIENT, presence,
                   clock, pc, loc, slot_sampled, found, timing>>

\* player.rs:303-328: the initial mark; an error of the status query counts
\* as not playing
ListenStatus ==
    /\ at["event"] = "status"
    /\ \E status \in Statuses \cup {"Error"} :
          /\ is_playing' = (status = "Playing")
          /\ at' = [at EXCEPT !["event"] = IF status = "Playing"
                                         THEN "initial_update" ELSE "subscribe"]
    /\ UNCHANGED <<pid_guard, started, poisoned, attempts, pending, log,
                   client_guard, handled, APPLE_MUSIC_PID, players, CURRENT_SONG,
                   DISCORD_CLIENT, presence, clock, pc, loc, slot_sampled, found,
                   timing>>

\* player.rs:324-327, 346, 356: the update returns to the listener, which
\* drops the result
ListenerReturn ==
    /\ pc["event"] = "done"
    /\ pc' = [pc EXCEPT !["event"] = "idle"]
    /\ loc' = [loc EXCEPT !["event"] = IdleLoc]
    /\ at' = [at EXCEPT !["event"] = IF at["event"] = "initial_update"
                                     THEN "subscribe" ELSE "events"]
    /\ UNCHANGED <<pid_guard, started, poisoned, attempts, pending, log,
                   client_guard, is_playing, handled, APPLE_MUSIC_PID, players,
                   CURRENT_SONG, DISCORD_CLIENT, presence, clock, slot_sampled,
                   found, timing>>

EventsError == AppError("Mpris", "Error getting player events")

StreamEnded == AppError("Player", "Player events stream ended unexpectedly")

\* player.rs:332-334: player.events()
Subscribe ==
    /\ at["event"] = "subscribe"
    /\ \/ /\ at' = [at EXCEPT !["event"] = "events"]
          /\ log' = log
       \/ /\ at' = [at EXCEPT !["event"] = supervise(Err(EventsError))]
          /\ log' = [log EXCEPT !["event"] = supervisor_log(Err(EventsError))]
    /\ UNCHANGED <<pid_guard, started, poisoned, attempts, pending,
                   client_guard, is_playing, handled, APPLE_MUSIC_PID, players,
                   CURRENT_SONG, DISCORD_CLIENT, presence, clock, pc, loc,
                   slot_sampled, found, timing>>

\* player.rs:338-375: the next item of the event stream: an event, an error
\* item, or the end of the stream
Receive(env) ==
    /\ at["event"] = "events"
    /\ \/ \E event \in env.events :
             /\ is_playing' = mark_after(event, is_playing)
             /\ at' = [at EXCEPT !["event"] = after_event(event, is_playing)]
             /\ handled' = [event |-> Some(event), clears |-> 0]
             /\ log' = log
       \/ /\ handled' = NoEvent
          /\ UNCHANGED <<is_playing, at, log>>
       \/ /\ at' = [at EXCEPT !["event"] = supervise(Err(StreamEnded))]
          /\ log' = [log EXCEPT !["event"] = supervisor_log(Err(StreamEnded))]
          /\ handled' = NoEvent
          /\ UNCHANGED is_playing
    /\ UNCHANGED <<pid_guard, started, poisoned, attempts, pending,
                   client_guard, APPLE_MUSIC_PID, players, CURRENT_SONG,
                   DISCORD_CLIENT, presence, clock, pc, loc, slot_sampled, found,
                   timing>>

\* player.rs:351 and 361, client.rs:40
ListenerLock ==
    /\ at["event"] = "event_clear"
    /\ lock_granted(client_guard)
    /\ client_guard' = Some("event")
    /\ at' = [at EXCEPT !["event"] = "event_clearing"]
    /\ UNCHANGED <<pid_guard, started, poisoned, attempts, pending, log,
                   is_playing, handled, APPLE_MUSIC_PID, players, CURRENT_SONG,
                   DISCORD_CLIENT, presence, clock, pc, loc, slot_sampled, found,
                   timing>>

\* player.rs:351 and 361-362: clear_presence with its result dropped; after
\* PlayerShutDown the listener returns Ok to the supervising loop
ListenerClear ==
    /\ at["event"] = "event_clearing"
    /\ \/ presence' = IF IsSome(DISCORD_CLIENT) THEN None ELSE presence
       \/ IsSome(DISCORD_CLIENT) /\ presence' = presence
    /\ client_guard' = None
    /\ handled' = [handled EXCEPT
                       !.clears = IF IsSome(DISCORD_CLIENT) THEN @ + 1 ELSE @]
    /\ at' = [at EXCEPT !["event"] = IF handled.event = Some("PlayerShutDown")
                                     THEN supervise(Ok("listener returned"))
                                     ELSE "events"]
    /\ UNCHANGED <<pid_guard, started, poisoned, attempts, pending, log,
                   is_playing, APPLE_MUSIC_PID, players, CURRENT_SONG,
                   DISCORD_CLIENT, clock, pc, loc, slot_sampled, found, timing>>

\* client.rs:139-187: the update returns to the polling loop
PollReturn ==
    /\ pc["poll"] = "done"
    /\ pc' = [pc EXCEPT !["poll"] = "idle"]
    /\ loc' = [loc EXCEPT !["poll"] = IdleLoc]
    /\ attempts' = attempts_after(Outcome("poll"), attempts)
    /\ at' = [at EXCEPT !["poll"] = poll_after(Outcome("poll"), attempts')]
    /\ log' = [log EXCEPT !["poll"] = poll_log(Outcome("poll"))]
    /\ UNCHANGED <<pid_guard, started, poisoned, pending,
                   client_guard, is_playing, handled, APPLE_MUSIC_PID, players,
                   CURRENT_SONG, DISCORD_CLIENT, presence, clock, slot_sampled,
                   found, timing>>

\* player.rs:382, 392 and client.rs:130, 166, 187: a sleep ends; a spawned
\* thread sleeps before it enters its loop
Wake(t) ==
    /\ at[t] \in {"spawned", "sleep", "sleep_short"}
    /\ at' = [at EXCEPT ![t] = IF t = "event" THEN "listen" ELSE "update"]
    /\ log' = [log EXCEPT ![t] = None]
    /\ UNCHANGED <<pid_guard, started, poisoned, attempts, pending,
                   client_guard, is_playing, handled, APPLE_MUSIC_PID, players,
                   CURRENT_SONG, DISCORD_CLIENT, presence, clock, pc, loc,
                   slot_sampled, found, timing>>

\* a call of update_discord_presence from a loop or from the command
CallUpdate(t) ==
    /\ at[t] \in UpdateSites
    /\ Find(t)

\* the listener thread and the polling thread
Loops(env) ==
    \/ \E t \in Drivers : CallUpdate(t)
    \/ \E t \in Drivers : Pipeline(t, env)
    \/ ListenerReturn
    \/ PollReturn
    \/ ListenFind
    \/ ListenGiveUp
    \/ ListenStatus
    \/ Subscribe
    \/ Receive(env)
    \/ ListenerLock
    \/ ListenerClear
    \/ \E t \in Drivers : Wake(t)

\* the tray's quit menu item
Tray ==
    \/ TrayQuit
    \/ TrayLock
    \/ TrayClear

\* the update that start_discord_presence runs on the command thread
CommandUpdate(env) ==
    \/ CallUpdate("command")
    \/ Pipeline("command", env)
    \/ CommandReturn

\* the launcher and the bus
Surroundings(env) ==
    \/ OpenAppleMusic(env)
    \/ Register(env)
    \/ Unregister

\* all three threads; the player stays on the bus once it has registered
NextDrive ==
    \/ StartDiscordPresence
    \/ Loops(DriveEnv)
    \/ CommandUpdate(DriveEnv)
    \/ Tray
    \/ OpenAppleMusic(DriveEnv)
    \/ Register(DriveEnv)

SpecDrive == Init /\ [][NextDrive]_vars

\* Scheduling: a thread that is returning from a call, sleeping for a fixed
\* time or about to make a bus call does take that step; nothing is assumed
\* about lock requests, events or the environment.
LoopFairness ==
    /\ WF_vars(PollReturn)
    /\ WF_vars(ListenerReturn)
    /\ WF_vars(ListenGiveUp)
    /\ WF_vars(ListenFind)
    /\ \A t \in Drivers : WF_vars(Wake(t)) /\ WF_vars(CallUpdate(t))

\* the two loops on their own, after start_discord_presence spawned them
NextLoops ==
    \/ StartDiscordPresence
    \/ Loops(LoopsEnv)
    \/ Surroundings(LoopsEnv)

SpecLoops == Init /\ [][NextLoops]_vars

SpecLoopsLive == SpecLoops /\ LoopFairness

\* the two loops of lib.rs:104-149, whose listener reads the identity itself
LibLoops(env) ==
    \/ \E t \in Drivers : CallUpdate(t)
    \/ \E t \in Drivers : Pipeline(t, env)
    \/ ListenerReturn
    \/ PollReturn
    \/ LibListenFind
    \/ LibListenGiveUp
    \/ ListenGiveUp
    \/ ListenStatus
    \/ Subscribe
    \/ Receive(env)
    \/ ListenerLock
    \/ ListenerClear
    \/ \E t \in Drivers : Wake(t)

NextLib ==
    \/ StartDiscordPresence
    \/ LibLoops(LoopsEnv)
    \/ Surroundings(LoopsEnv)

SpecLib == Init /\ [][NextLib]_vars

\* the command, invoked again and again while the two loops run
NextStart ==
    \/ StartDiscordPresence
    \/ StartDiscordPresenceAgain
    \/ CommandUpdate(DriveEnv)
    \/ \E t \in Drivers : Wake(t)
    \/ OpenAppleMusic(DriveEnv)
    \/ Register(DriveEnv)

SpecStart == Init /\ [][NextStart]_vars

(***************************************************************************)
(* The resolver on its own: every stored identity against every bus list.  *)
(***************************************************************************)
Resolve ==
    /\ \E bus_ok \in BOOLEAN :
          LET listing == IF bus_ok THEN Some(players) ELSE None
          IN  found' = Some([cell |-> APPLE_MUSIC_PID, listing |-> listing,
                             result |-> find_apple_music_player(APPLE_MUSIC_PID, listing)])
    /\ UNCHANGED <<pid_guard, started, poisoned, attempts, pending, log,
                   client_guard, drive, APPLE_MUSIC_PID, players, CURRENT_SONG, DISCORD_CLIENT,
                   presence, clock, pc, loc, slot_sampled, timing>>

NextResolve ==
    \/ Resolve
    \/ OpenAppleMusic(ResolveEnv)
    \/ Register(ResolveEnv)
    \/ Unregister

SpecResolve == Init /\ [][NextResolve]_vars

(***************************************************************************)
(* The timing computations on their own: every sample of the bounded sets, *)
(* through player.rs followed by set_activity, and through lib.rs.         *)
(***************************************************************************)
RawDurations ==
    {None, Some(0), Some(1), Some(200), Some(86399), Some(86400), Some(86401),
     Some(90000)}

RawPositions == {0, 10, 200, 500, 86400, 86401}

Nows == {1000, 100000}

Computed(tm, timestamps) ==
    Some([start_time |-> tm.start_time, end_time |-> tm.end_time,
          timestamps |-> timestamps])

ComputePlayer ==
    /\ IsNone(timing.player)
    /\ LET tm == player_timing(timing.raw_duration, timing.raw_position, timing.now)
       IN  timing' = [timing EXCEPT
               !.player = Computed(tm, activity_timestamps(tm.start_time, tm.end_time))]
    /\ UNCHANGED <<pid_guard, started, poisoned, attempts, pending, log,
                   client_guard, drive, APPLE_MUSIC_PID, players, CURRENT_SONG, DISCORD_CLIENT,
                   presence, clock, pc, loc, slot_sampled, found>>

ComputeLib ==
    /\ IsNone(timing.lib)
    /\ LET tm == lib_timing(timing.raw_duration, timing.raw_position, timing.now)
       IN  timing' = [timing EXCEPT
               !.lib = Computed(tm, lib_activity("", "", None, tm.start_time,
                                                 Unwrap(tm.end_time), <<>>).timestamps)]
    /\ UNCHANGED <<pid_guard, started, poisoned, attempts, pending, log,
                   client_guard, drive, APPLE_MUSIC_PID, players, CURRENT_SONG, DISCORD_CLIENT,
                   presence, clock, pc, loc, slot_sampled, found>>

InitTiming ==
    /\ APPLE_MUSIC_PID = None
    /\ players = <<>>
    /\ CURRENT_SONG = None
    /\ DISCORD_CLIENT = None
    /\ presence = None
    /\ clock = T0
    /\ pc = [t \in Threads |-> "idle"]
    /\ loc = [t \in Threads |-> IdleLoc]
    /\ slot_sampled = 0
    /\ client_guard = None
    /\ at = [t \in Threads |-> IF t = "command" THEN "idle" ELSE "unspawned"]
    /\ is_playing = FALSE
    /\ handled = NoEvent
    /\ poisoned = FALSE
    /\ attempts = NoAttempts
    /\ pending = None
    /\ log = [t \in Threads |-> None]
    /\ started = 0
    /\ pid_guard = None
    /\ found = None
    /\ \E d \in RawDurations, p \in RawPositions, n \in Nows :
          timing = [raw_duration |-> d, raw_position |-> p, now |-> n,
                    player |-> None, lib |-> None]

NextTiming == ComputePlayer \/ ComputeLib

SpecTiming == InitTiming /\ [][NextTiming]_vars

(***************************************************************************)
(* Claims about the resolver (SpecResolve).                                *)
(***************************************************************************)
\* the decimal digits of n, most significant first
Decimal(n) ==
    LET ndigits == CHOOSE k \in 1..10 : 10^(k - 1) <= n /\ n < 10^k
    IN  [i \in 1..ndigits |-> DigitChars[((n \div 10^(ndigits - i)) % 10) + 1]]

Occurs(pat, s) ==
    \E a, b \in 0..Len(s) :
        /\ a + Len(pat) + b = Len(s)
        /\ \A k \in 1..Len(pat) : s[a + k] = pat[k]

PlayerNotFound(r) ==
    /\ ~r.ok
    /\ r.err \in {NoPlayersActive, NoPlayerForInstance}

\* a resolve that had an identity and a bus listing
Resolved == IsSome(found) /\ IsSome(Unwrap(found).cell) /\ IsSome(Unwrap(found).listing)

\* C1: with the identity set, resolve returns a listed player only if its bus
\* address contains the decimal string of the stored process id; when the list
\* is empty or no address contains it, resolve fails with player-not-found.
C1_ScopedResolution ==
    Resolved =>
        LET f == Unwrap(found)
            pid_str == Decimal(Unwrap(f.cell))
            list == Unwrap(f.listing)
            matching == {i \in 1..Len(list) : Occurs(pid_str, list[i].bus_name)}
        IN  /\ f.result.ok =>
                \E i \in matching : f.result.val = list[i]
            /\ matching = {} => PlayerNotFound(f.result)

\* C1 witness: a non-empty list without any matching address was resolved and
\* the outcome was player-not-found
C1_Witness ==
    /\ Resolved
    /\ Len(Unwrap(Unwrap(found).listing)) > 0
    /\ \A i \in 1..Len(Unwrap(Unwrap(found).listing)) :
          ~Occurs(Decimal(Unwrap(Unwrap(found).cell)),
                  Unwrap(Unwrap(found).listing)[i].bus_name)
    /\ PlayerNotFound(Unwrap(found).result)

\* C2: no cross-instance bleed: resolve never returns a player owned by a
\* process other than the stored identity, also when another owner's id
\* contains the stored id's digits (42 in 1420) or several addresses match.
C2_NoCrossInstanceBleed ==
    Resolved /\ Unwrap(found).result.ok =>
        Unwrap(found).result.val.owner = Unwrap(Unwrap(found).cell)

(***************************************************************************)
(* Claims about the timing computations (SpecTiming).                      *)
(***************************************************************************)
\* the timings computed so far from the sample, by either implementation
Computations ==
    {Unwrap(c) : c \in {x \in {timing.player, timing.lib} : IsSome(x)}}

RawDuration == UnwrapOr(timing.raw_duration, 0)

\* C7: whenever the computed end_time is Some, it lies after start_time and at
\* most a day after it.
C7_SanitizerInvariant ==
    \A c \in Computations :
        IsSome(c.end_time) =>
            /\ Unwrap(c.end_time) > c.start_time
            /\ Unwrap(c.end_time) - c.start_time <= 86400

\* C8: a position beyond the duration or beyond a day counts as 0, so
\* start_time = now; otherwise start_time = now - raw_position.
C8_PositionClamp ==
    \A c \in Computations :
        c.start_time =
            IF timing.raw_position > RawDuration \/ timing.raw_position > 86400
            THEN timing.now
            ELSE timing.now - timing.raw_position

\* C9: end_time is Some(start_time + raw_duration) exactly when
\* 0 < raw_duration <= 86400, and None otherwise.
C9_DurationClamp ==
    \A c \in Computations :
        c.end_time =
            IF 0 < RawDuration /\ RawDuration <= 86400
            THEN Some(c.start_time + RawDuration)
            ELSE None

(***************************************************************************)
(* Claims about the update pipeline (Spec, SpecSeq).                       *)
(***************************************************************************)
LookupStep(t) == pc[t] = "lookup" /\ pc'[t] # "lookup"

HitAfter(t) == pc'[t] \in {"upgrade", "publish"}

WriteStep(t) == pc[t] \in {"upgrade", "miss"} /\ pc'[t] = "publish"

PublishStep(t) ==
    /\ pc[t] = "set_activity"
    /\ pc'[t] = "done"
    /\ Unwrap(loc'[t].result).ok

Published(t) ==
    /\ pc[t] = "done"
    /\ IsSome(loc[t].result)
    /\ Unwrap(loc[t].result).ok

SameSong(t) ==
    /\ IsSome(CURRENT_SONG)
    /\ Unwrap(CURRENT_SONG).title = loc[t].title
    /\ Unwrap(CURRENT_SONG).artist = loc[t].artist

OtherSong(t) ==
    /\ IsSome(CURRENT_SONG)
    /\ \/ Unwrap(CURRENT_SONG).title # loc[t].title
       \/ Unwrap(CURRENT_SONG).artist # loc[t].artist

SinceLastWrite == clock - Unwrap(CURRENT_SONG).last_updated

\* C3: the lookup, decision and write of one update are atomic with respect
\* to the other driver: no thread writes the cache while another is between
\* its lookup and its own write, and no write replaces an entry computed from
\* a newer sample.
C3_AtomicReconcile ==
    [][\A u \in Threads :
          WriteStep(u) =>
              /\ \A t \in Threads \ {u} : pc[t] \notin {"upgrade", "miss"}
              /\ IsSome(CURRENT_SONG) => slot_sampled <= loc[u].current_time]_vars

\* C4: an update of the same (title, artist) less than 30s after the entry's
\* last write, the entry having no end time, publishes the entry's start_time,
\* and publishes the sample's end_time whenever the sample has one.
C4_CacheStability ==
    [][\A t \in Threads :
          /\ (LookupStep(t) /\ SameSong(t) /\ SinceLastWrite < 30
                 /\ IsNone(Unwrap(CURRENT_SONG).end_time))
                => /\ HitAfter(t)
                   /\ PublishArgs(t)'.start_time = Unwrap(CURRENT_SONG).start_time
                   /\ IsSome(loc[t].end_time) =>
                          PublishArgs(t)'.end_time = loc[t].end_time
          /\ (pc[t] = "upgrade" /\ pc'[t] # "upgrade")
                => PublishArgs(t)' = PublishArgs(t)
          /\ (PublishStep(t) /\ IsSome(loc[t].cached_song))
                => Unwrap(presence').timestamps.start
                       = Some(PublishArgs(t).start_time)]_vars

\* C4 witness: a publish from the hit path that upgraded the end time and
\* shows the entry's start_time, which is not the start_time of its own sample
C4_Witness ==
    \E t \in Threads :
        /\ Published(t)
        /\ loc[t].upgraded
        /\ IsSome(presence)
        /\ Unwrap(presence).timestamps.start = Some(Unwrap(CURRENT_SONG).start_time)
        /\ Unwrap(CURRENT_SONG).start_time # loc[t].start_time
        /\ IsSome(PublishArgs(t).end_time)

\* C5: an update whose (title, artist) differs from the cached entry in title
\* or in artist takes the miss path even inside the TTL: the slot is replaced
\* by the new song's entry with a fresh last_updated, and the published
\* start_time is now - position of the new sample.
C5_CacheReplacement ==
    [][\A t \in Threads :
          /\ (LookupStep(t) /\ OtherSong(t)) => pc'[t] = "miss"
          /\ (pc[t] = "miss" /\ pc'[t] # "miss")
                => /\ IsSome(CURRENT_SONG')
                   /\ Unwrap(CURRENT_SONG').title = loc[t].title
                   /\ Unwrap(CURRENT_SONG').artist = loc[t].artist
                   /\ Unwrap(CURRENT_SONG').start_time
                          = loc[t].current_time - loc[t].position
                   /\ Unwrap(CURRENT_SONG').end_time = loc[t].end_time
                   /\ Unwrap(CURRENT_SONG').last_updated = clock
                   /\ Unwrap(CURRENT_SONG').artwork_url = loc'[t].artwork_url
                   /\ Unwrap(CURRENT_SONG').apple_music_url = loc'[t].apple_music_url
          /\ (PublishStep(t) /\ IsNone(loc[t].cached_song))
                => /\ Unwrap(presence').timestamps.start
                          = Some(loc[t].current_time - loc[t].position)
                   /\ Unwrap(presence').details = loc[t].title
                   /\ Unwrap(presence').state = loc[t].artist]_vars

\* C5 witness: the lookup took the miss path although the slot holds a fresh
\* entry, of another song
C5_Witness ==
    \E t \in Threads :
        /\ pc[t] = "miss"
        /\ OtherSong(t)
        /\ SinceLastWrite < 30

\* C6: an entry is reused only while now - last_updated < 30s, strictly; at
\* 30s or later an update for the same song takes the miss path and computes
\* start_time, artwork and URL anew.
C6_CacheFreshness ==
    [][\A t \in Threads :
          /\ LookupStep(t) => (HitAfter(t) <=> (SameSong(t) /\ SinceLastWrite < 30))
          /\ (LookupStep(t) /\ SameSong(t) /\ SinceLastWrite >= 30)
                => /\ pc'[t] = "miss"
                   /\ PublishArgs(t)'.start_time = loc[t].current_time - loc[t].position
          /\ (pc[t] = "miss" /\ pc'[t] # "miss")
                => /\ PublishArgs(t)'.artwork_url \in
                          {None, Some(<<"artwork", loc[t].artist, loc[t].title>>)}
                   /\ Len(PublishArgs(t)'.apple_music_url) > 0
                   /\ Unwrap(CURRENT_SONG').start_time = PublishArgs(t)'.start_time]_vars

\* C6 witness: the lookup took the miss path for the song the slot holds,
\* exactly 30s after the entry's last write
C6_Witness ==
    \E t \in Threads :
        /\ pc[t] = "miss"
        /\ SameSong(t)
        /\ SinceLastWrite = 30

\* C10: when the end_time of an update is None, or is not after start_time by
\* at most a day, the activity that reaches the indicator has no end timestamp.
C10_NoFabricatedEnd ==
    \A t \in Threads :
        Published(t) =>
            LET a == PublishArgs(t)
                valid == /\ IsSome(a.end_time)
                         /\ Unwrap(a.end_time) > a.start_time
                         /\ Unwrap(a.end_time) - a.start_time <= 86400
            IN  ~valid => /\ IsSome(presence)
                          /\ IsNone(Unwrap(presence).timestamps.end)

(***************************************************************************)
(* Claims about the driver loops (SpecDrive).                              *)
(***************************************************************************)
\* thread t is inside set_activity's or clear_presence's call on the client
InClientCall(t) ==
    \/ pc[t] \in {"set_activity", "clear_presence"}
    \/ at[t] \in {"event_clearing", "quit_clearing"}

\* thread t is blocked in lock_client
AtClientLock(t) ==
    \/ pc[t] \in {"publish", "clear"}
    \/ at[t] \in {"event_clear", "quit_clear"}

\* C11: publish and clear calls on the presence client are mutually
\* exclusive: at most one of the event, poll and command threads is inside
\* the client call, and that thread holds the publisher mutex.
C11_PublisherExclusion ==
    \A t, u \in Threads :
        InClientCall(t) =>
            /\ client_guard = Some(t)
            /\ InClientCall(u) => u = t

\* C11 witness: the poll thread is publishing while the event thread and the
\* command thread both wait for the publisher mutex
C11_Witness ==
    /\ pc["poll"] = "set_activity"
    /\ AtClientLock("event")
    /\ AtClientLock("command")

(***************************************************************************)
(* Claims about failed updates and the polling safety net (SpecSeq).       *)
(***************************************************************************)
\* identity unset, player not found, or a bus communication error
ResolveFailure(r) ==
    /\ ~r.ok
    /\ \/ r.err \in {PidNotStored, NoPlayersActive, NoPlayerForInstance}
       \/ r.err.variant = "Mpris"

\* C12: whenever the most recent update attempt ended in identity-unset,
\* player-not-found or a bus communication error, the indicator shows
\* nothing: a previously published presence has been cleared.
C12_FailureShowsNothing ==
    \A t \in Threads :
        (Returned(t) /\ ResolveFailure(Outcome(t))) => IsNone(presence)

\* C13: with no events delivered, the indicator reflects the player's state
\* at the end of a completed poll iteration: nothing when the player is gone
\* or not playing, the sampled (title, artist) when it is playing.
\* Iterations that ended in a bus or publisher error are left out.
NotPlaying == AppError("Player", "Player is not currently playing")

C13_PollBoundsStaleness ==
    Returned("poll") =>
        LET r == Outcome("poll")
        IN  /\ (r.ok => /\ IsSome(presence)
                        /\ Unwrap(presence).details = loc["poll"].title
                        /\ Unwrap(presence).state = loc["poll"].artist)
            /\ (PlayerNotFound(r) \/ (~r.ok /\ r.err = NotPlaying))
                   => IsNone(presence)

(***************************************************************************)
(* Claims about the driver loops under LoopFairness (SpecLoopsLive).       *)
(***************************************************************************)
\* the tray's quit ended the process
ProcessExited == at["command"] = "exited"

\* the update of thread t returned an error
Failed(t) == Returned(t) /\ ~Outcome(t).ok

\* C14: no driver loop ends on a failed update: a driver thread ends only
\* with the process; after every error outcome of a poll update the polling
\* loop sleeps and then makes its next update call; after every error return
\* of the listener the supervising loop sleeps and then calls the listener
\* again; a failed update inside the listener leaves the listener running.
C14_LoopsNeverTerminate ==
    /\ [](\A t \in Drivers : at[t] = "exited" => ProcessExited)
    /\ [](Failed("poll") => <>(ProcessExited \/ at["poll"] \in {"sleep", "sleep_short"}))
    /\ [](at["poll"] \in {"sleep", "sleep_short"}
             => <>(ProcessExited \/ (at["poll"] = "update" /\ pc["poll"] # "idle")))
    /\ [](at["event"] \in {"wait_player", "sleep"}
             => <>(ProcessExited \/ at["event"] = "listen"))
    /\ [](at["event"] = "listen"
             => <>(ProcessExited \/ at["event"] \in {"status", "wait_player"}))
    /\ [](Failed("event")
             => <>(ProcessExited \/ (pc["event"] = "idle"
                                     /\ at["event"] \in {"subscribe", "events"})))

\* C14 witness: the identity is still unset and both loops are asleep after
\* a failed attempt
C14_Witness ==
    /\ IsNone(APPLE_MUSIC_PID)
    /\ at["poll"] = "sleep"
    /\ at["event"] = "sleep"

(***************************************************************************)
(* Claims about the listener (SpecLoops, SpecLoopsLive).                   *)
(***************************************************************************)
\* the step in which the listener takes event ev from the stream
Received(ev) ==
    /\ at["event"] = "events"
    /\ handled' = [event |-> Some(ev), clears |-> 0]
    /\ \A t \in Threads \ {"event"} : at'[t] = at[t]
    /\ UNCHANGED <<pc, players, APPLE_MUSIC_PID>>

\* the listener is inside the match arm of event ev
Handling(ev) ==
    /\ handled.event = Some(ev)
    /\ at["event"] \in {"event_update", "event_clear", "event_clearing"}

\* the step in which the listener's clear_presence call returns
ClearReturns ==
    /\ at["event"] = "event_clearing"
    /\ at'["event"] \notin {"event_clearing", "exited"}

\* C15: on PlayerShutDown, playing or not, the listener invokes the
\* publisher's clear exactly once, runs no update and publishes nothing for
\* that event, and returns Ok to its supervising loop, which calls it again.
C15_ShutdownScenario ==
    [][/\ Received("PlayerShutDown") => at'["event"] = "event_clear"
       /\ Handling("PlayerShutDown")
             => /\ pc["event"] = "idle"
                /\ pc'["event"] = "idle"
                /\ at["event"] # "event_update"
                /\ handled.clears = 0
       /\ (ClearReturns /\ handled.event = Some("PlayerShutDown"))
             => /\ handled'.clears = 1
                /\ at'["event"] = supervise(Ok("listener returned"))
                /\ at'["event"] = "listen"
                /\ presence' \in {None, presence}]_vars

\* C15 witness: the listener, marked playing, has returned from a
\* PlayerShutDown event after one clear, and the indicator shows nothing
C15_Witness ==
    /\ handled = [event |-> Some("PlayerShutDown"), clears |-> 1]
    /\ at["event"] = "listen"
    /\ is_playing
    /\ IsSome(CURRENT_SONG)
    /\ IsNone(presence)

\* C16: the supervising loop calls the listener again only out of a sleep;
\* in particular after the listener returned because of PlayerShutDown it
\* does not resolve and subscribe again in the very next step.
C16_RearmAfterDelay ==
    [][(at'["event"] = "listen" /\ at["event"] # "listen")
          => at["event"] \in {"spawned", "sleep"}]_vars

\* C18: on Paused or Stopped the listener lowers its is-playing mark and makes
\* one clear call on the publisher; the steps of that match arm leave the
\* cache slot exactly as it was.
C18_PauseKeepsCache ==
    [][\A ev \in {"Paused", "Stopped"} :
          /\ Received(ev)
                => /\ ~is_playing'
                   /\ at'["event"] = "event_clear"
                   /\ CURRENT_SONG' = CURRENT_SONG
                   /\ presence' = presence
          /\ (Handling(ev) /\ at'["event"] # at["event"] /\ at'["event"] # "exited")
                => /\ ~is_playing /\ ~is_playing'
                   /\ CURRENT_SONG' = CURRENT_SONG
          /\ (ClearReturns /\ handled.event = Some(ev))
                => /\ handled'.clears = 1
                   /\ presence' \in {None, presence}
                   /\ at'["event"] = "events"]_vars

\* C18 witness: after a Paused event and its clear the mark is down, the
\* indicator shows nothing and the cache still holds the song
C18_Witness ==
    /\ handled = [event |-> Some("Paused"), clears |-> 1]
    /\ at["event"] = "events"
    /\ ~is_playing
    /\ IsNone(presence)
    /\ IsSome(CURRENT_SONG)

\* C19: on TrackChanged the listener runs the update pipeline if and only if
\* its is-playing mark is true; with the mark false the event causes no
\* publish, no clear and no cache write.
C19_TrackChangedGate ==
    [][/\ Received("TrackChanged")
             => /\ is_playing' = is_playing
                /\ (at'["event"] = "event_update") <=> is_playing
                /\ ~is_playing
                      => /\ at'["event"] = "events"
                         /\ UNCHANGED <<presence, CURRENT_SONG, client_guard, loc>>
       /\ Handling("TrackChanged")
             => /\ is_playing
                /\ at["event"] = "event_update"]_vars

\* C19 witness: a TrackChanged event was taken with the mark false while the
\* indicator shows a track, and the listener is back at the stream
C19_Witness ==
    /\ handled = [event |-> Some("TrackChanged"), clears |-> 0]
    /\ at["event"] = "events"
    /\ ~is_playing
    /\ IsSome(presence)
    /\ pc["event"] = "idle"

C17_EndToEnd ==
    (/\ Published("poll")
     /\ IsNone(loc["poll"].cached_song)
     /\ loc["poll"].length = Some(200)
     /\ loc["poll"].position = 10) =>
        LET T == loc["poll"].current_time
            shown == Unwrap(presence)
            entry == Unwrap(CURRENT_SONG)
        IN  /\ loc["poll"].calls = 1
            /\ IsSome(presence)
            /\ shown.details = "Song A"
            /\ shown.state = "Artist X"
            /\ shown.timestamps = [start |-> Some(T - 10), end |-> Some(T + 190)]
            /\ Len(shown.button_url) > 0
            /\ IsSome(CURRENT_SONG)
            /\ entry.title = "Song A"
            /\ entry.artist = "Artist X"
            /\ entry.start_time = T - 10
            /\ entry.end_time = Some(T + 190)
            /\ entry.apple_music_url = shown.button_url
            /\ UnwrapOr(entry.artwork_url, <<"amusic_lg">>) = shown.large_image

\* C17 witness: with identity 4242 the update resolved the player "inst4242"
\* and published Song A from the miss path
C17_Witness ==
    /\ APPLE_MUSIC_PID = Some(4242)
    /\ Published("poll")
    /\ IsNone(loc["poll"].cached_song)
    /\ IsSome(loc["poll"].player)
    /\ contains(Unwrap(loc["poll"].player).bus_name, <<"4", "2", "4", "2">>)
    /\ loc["poll"].position = 10
    /\ loc["poll"].length = Some(200)
    /\ Unwrap(presence).timestamps.start = Some(loc["poll"].current_time - 10)
    /\ Unwrap(presence).timestamps.end = Some(loc["poll"].current_time + 190)

(***************************************************************************)
(* Claims about the polling loop's intervals and the loops' logging         *)
(* (SpecLoops).                                                            *)
(***************************************************************************)
\* the step in which the update returns to the polling loop
PollReturns ==
    /\ pc["poll"] = "done"
    /\ pc'["poll"] = "idle"
    /\ at'["poll"] # "exited"

\* the update published a song whose end time is still unknown
WaitingForData(t) == Published(t) /\ IsNone(PublishArgs(t).end_time)

\* C21: adaptive backoff: when a poll update published a song without an end
\* time, the attempt counter counts it (one more for the same title and
\* artist, 1 for another song) and the next poll comes after the short sleep
\* while the counter is below 5, after the standard sleep from then on; a
\* publish with an end time resets the counter.
C21_AdaptiveBackoff ==
    [][PollReturns =>
          /\ WaitingForData("poll")
                => /\ attempts'.count =
                          IF /\ attempts.title = loc["poll"].title
                             /\ attempts.artist = loc["poll"].artist
                          THEN attempts.count + 1 ELSE 1
                   /\ at'["poll"] = IF attempts'.count < 5 THEN "sleep_short"
                                                            ELSE "sleep"
          /\ (Published("poll") /\ ~WaitingForData("poll"))
                => /\ attempts' = NoAttempts
                   /\ at'["poll"] = "sleep"]_vars

\* the step in which thread t's update resolves its player
ResolveStep(t) == pc[t] = "idle" /\ pc'[t] \notin {"idle", "panicked"}

\* the step in which the listener resolves its player
ListenResolveStep == at["event"] = "listen" /\ at'["event"] \in {"status", "wait_player"}

\* the player launched for the stored identity is on the bus
OwnPlayerRegistered ==
    /\ IsSome(APPLE_MUSIC_PID)
    /\ \E i \in 1..Len(players) :
          /\ players[i].owner = Unwrap(APPLE_MUSIC_PID)
          /\ players[i].bus_name = InstancePrefix \o Decimal(Unwrap(APPLE_MUSIC_PID))

IdentityUnset(r) ==
    /\ ~r.ok
    /\ r.err = PidNotStored
    /\ mentions(r.err, "PID not stored")

\* C22: with the identity unset, every resolve fails with the identity-unset
\* error whatever the bus holds or answers; that error is not a
\* player-not-found error and the callers' test tells them apart; each loop
\* comes back for another attempt, and an attempt made with the identity
\* stored and the own player registered resolves unless the bus call fails.
C22_IdentityUnsetRetry ==
    /\ [][/\ \A t \in Drivers :
                /\ (ResolveStep(t) /\ IsNone(APPLE_MUSIC_PID))
                      => /\ pc'[t] = "done"
                         /\ IdentityUnset(Outcome(t)')
                         /\ ~PlayerNotFound(Outcome(t)')
                         /\ ~mentions(Outcome(t)'.err, "not found")
                /\ (ResolveStep(t) /\ pc'[t] = "done" /\ PlayerNotFound(Outcome(t)'))
                      => /\ IsSome(APPLE_MUSIC_PID)
                         /\ ~mentions(Outcome(t)'.err, "PID not stored")
                /\ (ResolveStep(t) /\ OwnPlayerRegistered)
                      => \/ pc'[t] = "track"
                         \/ Outcome(t)' = Err(FinderError)
          /\ (ListenResolveStep /\ IsNone(APPLE_MUSIC_PID))
                => /\ at'["event"] = "wait_player"
                   /\ pending' = Some(PidNotStored)
          /\ (ListenResolveStep /\ OwnPlayerRegistered)
                => \/ at'["event"] = "status"
                   \/ pending' = Some(FinderError)]_vars
    /\ []((Returned("poll") /\ IdentityUnset(Outcome("poll")))
             => <>(ProcessExited \/ (at["poll"] = "update" /\ pc["poll"] = "idle")))
    /\ [](pending = Some(PidNotStored)
             => <>(ProcessExited \/ at["event"] = "listen"))

\* C22 witness: players are registered, the identity is unset, the poll
\* update has returned identity-unset and the listener is about to
C22_Witness ==
    /\ IsNone(APPLE_MUSIC_PID)
    /\ Len(players) > 0
    /\ Returned("poll")
    /\ IdentityUnset(Outcome("poll"))
    /\ pending = Some(PidNotStored)

\* identity-unset and player-not-found: the expected outcomes of the startup
\* and shutdown windows
Quiet(e) == e \in {PidNotStored, NoPlayersActive, NoPlayerForInstance}

\* the step in which the listener returns an error to its supervising loop
ListenerFails ==
    /\ at["event"] \in {"wait_player", "subscribe", "events"}
    /\ at'["event"] = "sleep"

\* C23: logging policy: the polling loop and the supervising loop print an
\* error line for a failed attempt exactly when the failure is neither
\* identity-unset nor player-not-found, and go to their sleep either way.
C23_LoggingPolicy ==
    [][/\ (PollReturns /\ Failed("poll"))
             => /\ IsSome(log'["poll"]) <=> ~Quiet(Outcome("poll").err)
                /\ at'["poll"] = "sleep"
       /\ (ListenerFails /\ at["event"] = "wait_player")
             => IsSome(log'["event"]) <=> ~Quiet(Unwrap(pending))
       /\ (ListenerFails /\ at["event"] # "wait_player")
             => IsSome(log'["event"])]_vars

(***************************************************************************)
(* Claims about the song cache's lock (SpecPoison).                        *)
(***************************************************************************)
\* thread t's update makes a step that needs the song-cache lock
CacheAccess(t) == pc[t] \in {"lookup", "upgrade", "miss"} /\ pc'[t] # pc[t]

\* C24: a failed attempt to lock the song cache is never swallowed: the step
\* of an update that needs the lock while the mutex is poisoned ends the
\* update with an error, and nothing is published by that update.
C24_CacheLockFailurePropagates ==
    [][\A t \in Threads :
          (CacheAccess(t) /\ poisoned)
              => /\ pc'[t] = "done"
                 /\ ~Outcome(t)'.ok
                 /\ presence' = presence]_vars

(***************************************************************************)
(* Claims about the process identity (SpecResolve).                        *)
(***************************************************************************)
\* C25: the process identity is write-once: once stored it never changes and
\* never returns to unset, and a store_pid with another process id would
\* leave the stored one in place.
C25_WriteOnce ==
    /\ [][IsSome(APPLE_MUSIC_PID) => APPLE_MUSIC_PID' = APPLE_MUSIC_PID]_vars
    /\ [](IsSome(APPLE_MUSIC_PID)
             => \A pid \in Pids : store_pid(pid) = APPLE_MUSIC_PID)

\* C25 amended: the identity is stored at most once per run, by the launcher:
\* the cell changes only from unset to the launched process id, and later
\* resolves read that same id.
C25_StoredOnce ==
    [][/\ APPLE_MUSIC_PID' # APPLE_MUSIC_PID
             => /\ IsNone(APPLE_MUSIC_PID)
                /\ \E pid \in Pids : APPLE_MUSIC_PID' = Some(pid)
       /\ (IsSome(found) /\ IsSome(found') /\ IsSome(Unwrap(found).cell))
             => Unwrap(found').cell = Unwrap(found).cell]_vars

\* C25 witness: the identity was stored, players of other processes came and
\* went, and a later resolve read the stored id
C25_Witness ==
    /\ IsSome(APPLE_MUSIC_PID)
    /\ IsSome(found)
    /\ Unwrap(found).cell = APPLE_MUSIC_PID
    /\ Len(players) = 2
    /\ Unwrap(APPLE_MUSIC_PID) \notin Owners(players)

(***************************************************************************)
(* Claims about an update that samples a player that is not playing         *)
(* (SpecLoops).                                                            *)
(***************************************************************************)
\* the update of thread t has sampled a status other than Playing
SampledNotPlaying(t) == pc[t] \in {"clear", "clear_presence"}

\* the step in which the clear call of that update returns
ClearCallReturns(t) == pc[t] = "clear_presence" /\ pc'[t] = "done"

\* the steps of such an update leave the cache alone and lead only to the
\* clear call and to the return
NotPlayingFrame(t) ==
    /\ (pc[t] = "track" /\ pc'[t] = "clear")
          => UNCHANGED <<CURRENT_SONG, presence>>
    /\ (SampledNotPlaying(t) /\ pc'[t] # pc[t])
          => /\ CURRENT_SONG' = CURRENT_SONG
             /\ pc'[t] \in {"clear_presence", "done"}
             /\ loc'[t].calls = 0
             /\ IsNone(loc'[t].cached_song)

UpgradeStep(t) == pc[t] = "upgrade" /\ pc'[t] # "upgrade"

\* thread t's update is on the hit path
OnHitPath(t) == IsSome(loc[t].cached_song)

\* C27: end-time upgrade frame: a hit on an entry without end time, by a
\* sample that has one, writes the slot once: afterwards end_time is the
\* sample's and last_updated is refreshed, while title, artist, start_time,
\* artwork reference and external URL are those of the entry; an update on
\* the hit path never runs the artwork lookup or the URL builder.
C27_UpgradeFrame ==
    [][\A t \in Threads :
          /\ (LookupStep(t) /\ HitAfter(t))
                => /\ OnHitPath(t)'
                   /\ (pc'[t] = "upgrade")
                         <=> (IsNone(Unwrap(CURRENT_SONG).end_time)
                              /\ IsSome(loc[t].end_time))
                   /\ pc'[t] = "publish" => CURRENT_SONG' = CURRENT_SONG
          /\ UpgradeStep(t)
                => LET old == Unwrap(CURRENT_SONG)
                       new == Unwrap(CURRENT_SONG')
                   IN  /\ IsSome(new.end_time)
                       /\ new.end_time = loc[t].end_time
                       /\ new.last_updated = clock
                       /\ new.title = old.title
                       /\ new.artist = old.artist
                       /\ new.start_time = old.start_time
                       /\ new.artwork_url = old.artwork_url
                       /\ new.apple_music_url = old.apple_music_url
          /\ OnHitPath(t)
                => /\ pc[t] # "miss"
                   /\ pc'[t] # "miss"
                   /\ IsNone(loc'[t].artwork_url)
                   /\ loc'[t].apple_music_url = <<>>]_vars

(***************************************************************************)
(* Claims about the timing of cached entries (SpecSeq).                    *)
(***************************************************************************)
\* C28: every entry the song cache ever holds satisfies the timing
\* invariant: if its end_time is Some, then end_time > start_time and
\* end_time - start_time <= 86400, also when the entry was written by the
\* upgrade path from the start_time of an earlier sample and the end_time of
\* a later one.
C28_CacheTimingInvariant ==
    (IsSome(CURRENT_SONG) /\ IsSome(Unwrap(CURRENT_SONG).end_time))
        => /\ Unwrap(Unwrap(CURRENT_SONG).end_time) > Unwrap(CURRENT_SONG).start_time
           /\ Unwrap(Unwrap(CURRENT_SONG).end_time) - Unwrap(CURRENT_SONG).start_time
                  <= 86400

(***************************************************************************)
(* Claims about the items of the event stream that carry no handled event  *)
(* (SpecLoops).                                                            *)
(***************************************************************************)
\* the step in which the listener takes an error item from the stream
ErrorItem ==
    /\ at["event"] = "events"
    /\ at'["event"] = "events"
    /\ handled # NoEvent
    /\ handled' = NoEvent

\* the step in which the stream ends under the listener
StreamEnds ==
    /\ at["event"] = "events"
    /\ at'["event"] \notin {"events", "event_update", "event_clear"}

\* what the listener's step leaves alone when it neither updates nor clears
ListenerIdles ==
    /\ is_playing' = is_playing
    /\ UNCHANGED <<pid_guard, started, CURRENT_SONG, presence, client_guard, DISCORD_CLIENT, pc, loc>>

\* C29: an error item of the event stream and an event of an unhandled kind
\* change neither the is-playing mark nor the cache nor the publisher and
\* leave the listener at its stream; when the stream ends, the listener
\* returns the stream-ended error and its supervising loop goes to sleep
\* before it calls the listener again.
C29_StreamErrors ==
    [][/\ Received("Other")
             => /\ ListenerIdles
                /\ at'["event"] = "events"
       /\ ErrorItem
             => /\ ListenerIdles
                /\ log' = log
       /\ StreamEnds
             => /\ ListenerIdles
                /\ at'["event"] = "sleep"
                /\ at'["event"] = supervise(Err(StreamEnded))
                /\ log'["event"] = Some(StreamEnded)
       /\ (at'["event"] = "listen" /\ at["event"] # "listen")
             => at["event"] # "events"]_vars

\* C29 witness: the stream ended while the listener was marked playing and a
\* track was shown: the supervising loop sleeps, the stream-ended error is
\* printed, the indicator and the cache are as they were
C29_Witness ==
    /\ at["event"] = "sleep"
    /\ log["event"] = Some(StreamEnded)
    /\ is_playing
    /\ IsSome(presence)
    /\ IsSome(CURRENT_SONG)
    /\ handled = NoEvent

(***************************************************************************)
(* Claims about incomplete metadata (SpecMeta).                            *)
(***************************************************************************)
\* the update of thread t has sampled a playing track
Sampled(t) ==
    pc[t] \in {"lookup", "upgrade", "miss", "publish", "set_activity", "done"}
        /\ loc[t].current_time > 0

\* C30: an update never aborts its thread, whatever metadata the player
\* reports: a missing title is taken as "No title", a missing artist list as
\* "Unknown", and with an artist list that is present but empty the update
\* still goes on to a result or an error value.
C30_UpdateNeverAborts ==
    \A t \in Threads :
        /\ pc[t] # "panicked"
        /\ at[t] # "panicked"
        /\ (Sampled(t) /\ loc[t].metadata = "no_title") => loc[t].title = "No title"
        /\ (Sampled(t) /\ loc[t].metadata = "no_artists") => loc[t].artist = "Unknown"

(***************************************************************************)
(* Claims about the cache and the indicator across both drivers.           *)
(***************************************************************************)
\* every update other than that of thread t has completed
OthersCompleted(t) == \A u \in Threads \ {t} : pc[u] \in {"idle", "done"}

\* C31: cache and indicator agree at quiescence: when a successful publish is
\* the step that completes the last running update, the title, artist and
\* start_time handed to the publisher are those of the cache slot.
C31_QuiescentAgreement ==
    [][\A t \in Threads :
          (PublishStep(t) /\ OthersCompleted(t))
              => /\ IsSome(CURRENT_SONG')
                 /\ PublishArgs(t).title = Unwrap(CURRENT_SONG').title
                 /\ PublishArgs(t).artist = Unwrap(CURRENT_SONG').artist
                 /\ PublishArgs(t).start_time = Unwrap(CURRENT_SONG').start_time]_vars

(***************************************************************************)
(* Claims about successive updates of one song.                            *)
(***************************************************************************)
\* the set_activity call of thread t returns an error
PublishFails(t) ==
    /\ pc[t] = "set_activity"
    /\ pc'[t] = "done"
    /\ ~Unwrap(loc'[t].result).ok

\* the slot holds the entry that the miss path of thread t computed
HoldsEntryOf(t) ==
    /\ IsSome(CURRENT_SONG)
    /\ Unwrap(CURRENT_SONG).title = loc[t].title
    /\ Unwrap(CURRENT_SONG).artist = loc[t].artist
    /\ Unwrap(CURRENT_SONG).start_time = loc[t].start_time
    /\ Unwrap(CURRENT_SONG).artwork_url = loc[t].artwork_url
    /\ Unwrap(CURRENT_SONG).apple_music_url = loc[t].apple_music_url

\* C32: on the miss path the cache is written before the publish call; a
\* publish that fails returns the publisher's error and changes neither the
\* cache nor the presence, and less than 30s after the update's sample the
\* cache still holds the entry of that update; an update of the same song
\* within 30s of the entry's write takes the hit path and hands the entry's
\* start_time, artwork and URL to the publisher without running the artwork
\* lookup.
C32_MissWritesBeforePublish ==
    /\ [][\A t \in Threads :
            /\ (pc[t] = "miss" /\ pc'[t] = "publish")
                  => /\ loc[t].calls = 0
                     /\ HoldsEntryOf(t)'
            /\ (PublishFails(t) /\ IsNone(loc[t].cached_song))
                  => /\ Unwrap(loc'[t].result).err.variant = "Discord"
                     /\ CURRENT_SONG' = CURRENT_SONG
                     /\ presence' = presence
                     /\ clock - loc[t].current_time < 30 => HoldsEntryOf(t)
            /\ (LookupStep(t) /\ SameSong(t) /\ SinceLastWrite < 30)
                  => /\ HitAfter(t)
                     /\ PublishArgs(t)'.start_time = Unwrap(CURRENT_SONG).start_time
                     /\ PublishArgs(t)'.artwork_url = Unwrap(CURRENT_SONG).artwork_url
                     /\ PublishArgs(t)'.apple_music_url
                            = Unwrap(CURRENT_SONG).apple_music_url]_vars
    /\ [](\A t \in Threads :
            IsSome(loc[t].cached_song)
                => /\ pc[t] # "miss"
                   /\ loc[t].artwork_url = None
                   /\ loc[t].apple_music_url = <<>>)

\* C33: on a cache hit the start_time handed to the publisher, and the
\* end_time once the entry has one, are the entry's, whatever position, length
\* and clock the update sampled; the only write a hit makes, the upgrade,
\* leaves the entry's start_time and an end_time that was already set as they
\* are, so that they change only when the entry is replaced on a miss.
C33_HitPublishesCached ==
    [][\A t \in Threads :
          /\ (LookupStep(t) /\ HitAfter(t))
                => /\ PublishArgs(t)'.start_time = Unwrap(CURRENT_SONG).start_time
                   /\ IsSome(Unwrap(CURRENT_SONG).end_time)
                         => /\ PublishArgs(t)'.end_time = Unwrap(CURRENT_SONG).end_time
                            /\ pc'[t] = "publish"
          /\ UpgradeStep(t)
                => /\ IsSome(CURRENT_SONG)
                   /\ Unwrap(CURRENT_SONG').start_time = Unwrap(CURRENT_SONG).start_time
                   /\ IsSome(Unwrap(CURRENT_SONG).end_time)
                         => Unwrap(CURRENT_SONG').end_time
                                = Unwrap(CURRENT_SONG).end_time
          /\ (PublishStep(t) /\ OnHitPath(t))
                => /\ PublishArgs(t).start_time = Unwrap(loc[t].cached_song).start_time
                   /\ Unwrap(presence').timestamps.start
                          = Some(PublishArgs(t).start_time)]_vars

\* C34: plain hits do not extend an entry's life: the slot changes only in a
\* write step of the miss path or of an upgrade, an upgrade is written only
\* over an entry that has no end_time yet (so an entry is written at most
\* twice), and a lookup of the same song 30s or more after the entry's last
\* write misses and recomputes start_time from its own sample.
C34_HitsDoNotRefresh ==
    [][/\ CURRENT_SONG' # CURRENT_SONG => \E t \in Threads : WriteStep(t)
       /\ \A t \in Threads :
             /\ UpgradeStep(t)
                   => /\ loc[t].upgraded
                      /\ IsSome(CURRENT_SONG)
                      /\ IsNone(Unwrap(CURRENT_SONG).end_time)
             /\ (LookupStep(t) /\ pc'[t] = "publish")
                   => ~loc'[t].upgraded
             /\ (LookupStep(t) /\ SameSong(t) /\ SinceLastWrite >= 30)
                   => /\ pc'[t] = "miss"
                      /\ PublishArgs(t)'.start_time
                             = loc[t].current_time - loc[t].position]_vars

(***************************************************************************)
(* Claims about the threads and their locks.                               *)
(***************************************************************************)
\* C35: at most one poll loop and one listener supervisor per process: the
\* two drivers are spawned only by the invocation of start_discord_presence
\* that creates the publisher client, hence at most once, and never by an
\* invocation whose initialization fails.
C35_DriversStartedOnce ==
    [][started' # started
          => /\ started = 0
             /\ IsNone(DISCORD_CLIENT)
             /\ IsSome(DISCORD_CLIENT')]_vars

\* the mutexes thread t holds from one step to the next; the CURRENT_SONG lock
\* is taken and released inside the lookup and the write steps
Held(t) ==
    (IF client_guard = Some(t) THEN {"DISCORD_CLIENT"} ELSE {})
        \cup (IF pid_guard = Some(t) THEN {"APPLE_MUSIC_PID"} ELSE {})

\* thread t is about to take the identity lock, the cache lock or the
\* publisher lock
Requesting(t) ==
    \/ AtClientLock(t)
    \/ pc[t] \in {"lookup", "upgrade", "miss"}
    \/ pc[t] = "idle" /\ at[t] \in UpdateSites \cup {"listen"}

\* thread t sleeps, or waits for the next item of the event stream
Asleep(t) ==
    at[t] \in {"spawned", "sleep", "sleep_short", "wait_player", "wait_launch",
               "events"}

\* C36: no thread holds more than one of the three mutexes at a time: a
\* thread that requests a lock holds none, a thread holds a lock only while
\* it is inside the call that took it, and a thread that sleeps or waits on
\* the event stream holds none, so that no lock request waits on a sleeper.
C36_NoLockHeldAcrossWaits ==
    \A t \in Threads :
        /\ Cardinality(Held(t)) <= 1
        /\ Requesting(t) => Held(t) = {}
        /\ Asleep(t) => Held(t) = {}
        /\ "DISCORD_CLIENT" \in Held(t) => InClientCall(t)

====
